---- MODULE Spec2Model ----
(***************************************************************************)
(* MESAI kiosk (src/app/kiosk2/KioskClient.tsx): the work-session state    *)
(* machine, the rate computation and the barcode-capture loop of the       *)
(* KioskClient component, as a state machine.                              *)
(*                                                                         *)
(* Strings the code inspects character by character (the RFID buffer, the  *)
(* decoded barcode, the formatted duration) are sequences of one-character *)
(* strings.  Times are milliseconds, as Date.now() returns them.           *)
(***************************************************************************)
EXTENDS Integers, Sequences, FiniteSets, TLC

\* ------------------------------------------------------------------ bounds
\* The clock moves in steps of ClockStep ms and is read in 0..MaxNow.
ClockStep == 500
MaxNow == 1000
\* addPiece is enabled up to this produced count.
MaxProduced == 2
\* The clock is set back at most this many times in a behaviour.
MaxBack == 1
\* openScanner invocations that are pending, or whose stream is still open,
\* at the same time: the slots there are, and those Next uses.
ScanSlots == 2
MaxScans == 1
\* The work orders of demoWorkOrders the operator picks among.
MaxPick == 2
\* A shift with long pauses: the clock moves in steps of ScenarioStep ms, is
\* read in 0..ScenarioMaxNow, and addPiece is enabled up to ScenarioPieces.
ScenarioStep == 60000
ScenarioMaxNow == 180000
ScenarioPieces == 5

\* ------------------------------------------------------------ value types
\* null where an object is expected, and null where a string is expected.
Null == [null |-> TRUE]
NullStr == "null"

\* type DowntimeReason = 'break' | 'fault'
DowntimeReason == {"break", "fault"}

\* const demoWorkOrders (only the fields the session logic reads are kept
\* apart; the descriptive fields are carried along unchanged).
demoWorkOrders ==
  << [id |-> "1", wo |-> "WO-1001", model |-> "LACOSTE POLO",   target_pph |-> 45],
     [id |-> "2", wo |-> "WO-1002", model |-> "LACOSTE TSHIRT", target_pph |-> 60],
     [id |-> "3", wo |-> "WO-1003", model |-> "LACOSTE SWEAT",  target_pph |-> 35] >>

WorkOrders == {demoWorkOrders[i] : i \in DOMAIN demoWorkOrders}

\* ---------------------------------------------------------------- strings
Whitespace == {" "}

RECURSIVE trimStart(_)
trimStart(s) ==
  IF s # <<>> /\ Head(s) \in Whitespace THEN trimStart(Tail(s)) ELSE s

RECURSIVE trimEnd(_)
trimEnd(s) ==
  IF s # <<>> /\ s[Len(s)] \in Whitespace
  THEN trimEnd(SubSeq(s, 1, Len(s) - 1))
  ELSE s

\* String.prototype.trim
trim(s) == trimEnd(trimStart(s))

\* String.prototype.toLowerCase on the letters the model types.
lowerChar(c) ==
  CASE c = "A" -> "a" [] c = "H" -> "h" [] c = "M" -> "m" [] c = "E" -> "e"
    [] c = "T" -> "t" [] c = "L" -> "l" [] c = "I" -> "i" [] c = "D" -> "d"
    [] c = "R" -> "r" [] c = "X" -> "x" [] OTHER -> c

toLowerCase(s) == [i \in 1..Len(s) |-> lowerChar(s[i])]

\* The literals demoLookupOperator compares against.
Code1 == <<"0", "0", "0", "0", "0", "0", "0", "0", "1">>
Code2 == <<"0", "0", "0", "0", "0", "0", "0", "0", "2">>
StrAhmet == <<"a", "h", "m", "e", "t">>
StrLider == <<"l", "i", "d", "e", "r">>

\* demoLookupOperator knowing the operators by name only, not by card number.
demoLookupOperator_nameOnly(rfid) ==
  LET cleaned == trim(rfid) IN
  IF cleaned = <<>> THEN Null
  ELSE IF toLowerCase(cleaned) = StrAhmet
       THEN [id |-> "op-1", name |-> <<"Ahmet">>]
  ELSE IF toLowerCase(cleaned) = StrLider
       THEN [id |-> "op-2", name |-> <<"Lider">>]
  ELSE [id |-> "op-x", name |-> <<"Operator (">> \o cleaned \o <<")">>]

\* demoLookupOperator comparing the names without toLowerCase.
demoLookupOperator_exactCase(rfid) ==
  LET cleaned == trim(rfid) IN
  IF cleaned = <<>> THEN Null
  ELSE IF cleaned = Code1 \/ cleaned = StrAhmet
       THEN [id |-> "op-1", name |-> <<"Ahmet">>]
  ELSE IF cleaned = Code2 \/ cleaned = StrLider
       THEN [id |-> "op-2", name |-> <<"Lider">>]
  ELSE [id |-> "op-x", name |-> <<"Operator (">> \o cleaned \o <<")">>]

\* demoLookupOperator looking at the code as it came, untrimmed.
demoLookupOperator_noTrim(rfid) ==
  LET cleaned == rfid IN
  IF cleaned = <<>> THEN Null
  ELSE IF cleaned = Code1 \/ toLowerCase(cleaned) = StrAhmet
       THEN [id |-> "op-1", name |-> <<"Ahmet">>]
  ELSE IF cleaned = Code2 \/ toLowerCase(cleaned) = StrLider
       THEN [id |-> "op-2", name |-> <<"Lider">>]
  ELSE [id |-> "op-x", name |-> <<"Operator (">> \o cleaned \o <<")">>]

\* function demoLookupOperator(rfid): null for a code that is empty after
\* trimming, otherwise an operator {id, name}.  A name is the sequence of
\* the pieces of the string it is built from (non-ASCII letters of the
\* source's literals are written without their diacritics).
demoLookupOperator(rfid) ==
  LET cleaned == trim(rfid) IN
  IF cleaned = <<>> THEN Null
  ELSE IF cleaned = Code1 \/ toLowerCase(cleaned) = StrAhmet
       THEN [id |-> "op-1", name |-> <<"Ahmet">>]
  ELSE IF cleaned = Code2 \/ toLowerCase(cleaned) = StrLider
       THEN [id |-> "op-2", name |-> <<"Lider">>]
  ELSE [id |-> "op-x", name |-> <<"Operator (">> \o cleaned \o <<")">>]

\* ------------------------------------------------------------- formatting
Max(a, b) == IF a >= b THEN a ELSE b

\* JavaScript's % : the remainder has the sign of the dividend.
JsRem(a, b) == IF a >= 0 THEN a % b ELSE -((-a) % b)

Digit(d) ==
  CASE d = 0 -> "0" [] d = 1 -> "1" [] d = 2 -> "2" [] d = 3 -> "3"
    [] d = 4 -> "4" [] d = 5 -> "5" [] d = 6 -> "6" [] d = 7 -> "7"
    [] d = 8 -> "8" [] d = 9 -> "9"

RECURSIVE natToString(_)
natToString(n) ==
  IF n < 10 THEN <<Digit(n)>> ELSE Append(natToString(n \div 10), Digit(n % 10))

\* Number.prototype.toString for an integer.
toString(n) == IF n < 0 THEN <<"-">> \o natToString(-n) ELSE natToString(n)

\* function pad2(n): n.toString().padStart(2, '0')
pad2(n) ==
  LET t == toString(n) IN IF Len(t) < 2 THEN <<"0">> \o t ELSE t

\* function formatHMS(ms) with the clamp of line 51 left out.
formatHMS_noClamp(ms) ==
  LET s  == ms \div 1000
      hh == s \div 3600
      mm == JsRem(s, 3600) \div 60
      ss == JsRem(s, 60)
  IN  pad2(hh) \o <<":">> \o pad2(mm) \o <<":">> \o pad2(ss)

\* function formatHMS(ms)
formatHMS(ms) ==
  LET s  == Max(0, ms \div 1000)
      hh == s \div 3600
      mm == JsRem(s, 3600) \div 60
      ss == JsRem(s, 60)
  IN  pad2(hh) \o <<":">> \o pad2(mm) \o <<":">> \o pad2(ss)

\* Math.round of the non-negative rational q.num / q.den.
round(q) == (2 * q.num + q.den) \div (2 * q.den)

Zero == [num |-> 0, den |-> 1]

\* ------------------------------------------------------------------ inputs
\* What the RFID input's onChange delivers (e.target.value) and what a frame
\* decodes to (rawValue).
InputValues ==
  { <<>>, <<" ">>, <<" ", "A", "h", "m", "e", "t", " ">> }

\* A frame's detector.detect(video) result: it threw, or the list of the
\* rawValues of the barcodes found.
DetectResults ==
  { [threw |-> TRUE,  barcodes |-> <<>>],
    [threw |-> FALSE, barcodes |-> <<>>],
    [threw |-> FALSE, barcodes |-> << <<" ">>, <<"x", "7">> >>],
    [threw |-> FALSE, barcodes |-> << <<"x", "7">> >>] }

\* The frames in which the detector found a code: a decode that did not throw
\* and has a rawValue that is not empty after trimming.
PresentedFrames ==
  { r \in DetectResults :
      ~r.threw /\ \E k \in 1..Len(r.barcodes) : trim(r.barcodes[k]) # <<>> }

\* The codes of demoLookupOperator's table in several spellings, typed or
\* shown to the camera, and the frames that carry one of them.
CodeInputs ==
  InputValues \cup
    { Code1, <<" ">> \o Code2, <<"L", "I", "D", "E", "R">>, <<" ", "x", "7">> }

CodeFrames ==
  { [threw |-> FALSE, barcodes |-> <<v>>] : v \in CodeInputs }
    \cup { [threw |-> TRUE, barcodes |-> <<>>] }

\* navigator.mediaDevices.getUserMedia and window.BarcodeDetector: present
\* or not on the device.
Devices == {"ok", "noMediaDevices", "noBarcodeDetector"}

ErrNoCamera   == "Kamera erisimi desteklenmiyor."
ErrNoVideo    == "Video elementi bulunamadi."
ErrNoDetector == "BarcodeDetector desteklenmiyor. (Android Chrome guncel olmali)"
ErrRejected   == "e.message"

\* ------------------------------------------------------------------- state
VARIABLES
  state,       \* useState<SessionState>
  selectedWO,  \* useState<WorkOrder | null>
  rfidBuffer,  \* useState('')
  runningInfo, \* useMemo(..., [state, tick]): the value of the last render
  scanOpen,    \* useState(false)
  scanError,   \* useState<string | null>
  streamRef,   \* useRef<MediaStream | null>: 0, or the stream's id
  rafRef,      \* useRef<number | null>: 0, or the loop that requested it
  scan,        \* scan[i]: the await the i-th openScanner invocation stands at
               \* ("getUserMedia", "play", "playAborted", "raf", "detect"),
               \* or "done"
  tracks,      \* the streams whose tracks are live (camera open)
  device,      \* what the device supports
  mounted,     \* the component is mounted
  now,         \* Date.now()
  backs,       \* how often the clock was set back
  alert,       \* the alert() this step showed, or Null
  lastOp,      \* the session handler this step ran and its argument; "detect"
               \* and its result for a frame decode that emitted nothing;
               \* or "none"
  pre,         \* what that handler found: the session state, wallStart and
               \* pausedMs; or Null
  wallStart,   \* the clock reading when the running session was started
  pausedMs,    \* the clock time that passed while that session was paused
  added        \* the addPiece calls made while that session was running

sessionVars == <<state, selectedWO, rfidBuffer, runningInfo>>
scanVars == <<scanOpen, scanError, streamRef, rafRef, scan, tracks>>
ghostVars == <<wallStart, pausedMs, added>>
vars == <<state, selectedWO, rfidBuffer, runningInfo, scanOpen, scanError,
          streamRef, rafRef, scan, tracks, device, mounted, now, backs,
          alert, lastOp, pre, wallStart, pausedMs, added>>

Scans == 1..ScanSlots

Idle == [phase |-> "idle"]

InSession(st) == st.phase \in {"running", "paused"}

\* runningInfo measuring a paused session up to the clock, not to pauseTs.
RunningInfo_pausedNow(st, t) ==
  IF InSession(st)
  THEN LET elapsed == t - st.startTs
       IN  [elapsed |-> elapsed,
            pph |-> IF elapsed > 0
                    THEN [num |-> st.produced * 3600000, den |-> elapsed]
                    ELSE Zero]
  ELSE [elapsed |-> 0, pph |-> Zero]

\* runningInfo guarding the division with hours !== 0 instead of hours > 0.
RunningInfo_nonZero(st, t) ==
  IF InSession(st)
  THEN LET elapsed == (IF st.phase = "paused" THEN st.pauseTs ELSE t) - st.startTs
       IN  [elapsed |-> elapsed,
            pph |-> IF elapsed # 0
                    THEN [num |-> st.produced * 3600000, den |-> elapsed]
                    ELSE Zero]
  ELSE [elapsed |-> 0, pph |-> Zero]

\* const runningInfo = useMemo(...): elapsed and pph of session st at time t.
RunningInfo(st, t) ==
  IF InSession(st)
  THEN LET elapsed == (IF st.phase = "paused" THEN st.pauseTs ELSE t) - st.startTs
       IN  [elapsed |-> elapsed,
            pph |-> IF elapsed > 0
                    THEN [num |-> st.produced * 3600000, den |-> elapsed]
                    ELSE Zero]
  ELSE [elapsed |-> 0, pph |-> Zero]

Op(name, arg) == [name |-> name, arg |-> arg]

Init ==
  /\ state = Idle
  /\ selectedWO = Null
  /\ rfidBuffer = <<>>
  /\ runningInfo = RunningInfo(Idle, 0)
  /\ scanOpen = FALSE
  /\ scanError = NullStr
  /\ streamRef = 0
  /\ rafRef = 0
  /\ scan = [i \in Scans |-> "done"]
  /\ tracks = {}
  /\ device \in Devices
  /\ mounted = TRUE
  /\ now = 0
  /\ backs = 0
  /\ alert = Null
  /\ lastOp = Op("none", "")
  /\ pre = Null
  /\ wallStart = 0
  /\ pausedMs = 0
  /\ added = 0

\* No running session: nothing to account for.
NoLineage == wallStart' = 0 /\ pausedMs' = 0 /\ added' = 0

\* setState(st): the new session state, and the render it causes with the
\* useMemo of runningInfo recomputed (its dependency `state` changed).
setState(st) ==
  /\ state' = st
  /\ runningInfo' = RunningInfo(st, now)

Step(name, arg) ==
  /\ lastOp' = Op(name, arg)
  /\ pre' = (IF name = "none" THEN Null
              ELSE [session |-> state, wallStart |-> wallStart,
                    pausedMs |-> pausedMs])
  /\ UNCHANGED <<device, mounted, now, backs>>

\* What the running panel shows of runningInfo:
\* <Stat label="Sure" value={formatHMS(runningInfo.elapsed)} /> and
\* <Stat label="PPH" value={`${Math.round(runningInfo.pph)}`} />
SureStat == formatHMS(runningInfo.elapsed)
PPHStat == round(runningInfo.pph)

\* ----------------------------------------------------------- code capture
\* cancelAnimationFrame(raf) on the invocations sc: the frame callback that
\* loop raf has pending, if it still is, never runs.
cancelAnimationFrame(sc, raf) ==
  [i \in Scans |-> IF i = raf /\ sc[i] = "raf" THEN "done" ELSE sc[i]]

\* A video.play() that is pending when the <video> is taken out of the
\* document (the modal is rendered while scanOpen) or is given another
\* srcObject can only reject: the invocations sc once that has happened to
\* the video of every invocation but keep.
abortPlay(sc, keep) ==
  [i \in Scans |-> IF i # keep /\ sc[i] = "play" THEN "playAborted" ELSE sc[i]]

\* function stopScanner(), run while the invocations stand as sc; with
\* scanOpen false the modal and its <video> are gone.
stopScanner(sc) ==
  /\ scan' = abortPlay(IF rafRef # 0 THEN cancelAnimationFrame(sc, rafRef) ELSE sc, 0)
  /\ rafRef' = 0
  /\ tracks' = (IF streamRef # 0 THEN tracks \ {streamRef} ELSE tracks)
  /\ streamRef' = 0
  /\ scanOpen' = FALSE
  /\ UNCHANGED scanError

Authenticated(op) ==
  [phase |-> "authenticated", operatorId |-> op.id, operatorName |-> op.name]

\* loginWithCode authenticating from Idle only, unlike onRFIDEnter.
loginWithCode_idleOnly(code) ==
  LET op == demoLookupOperator(code) IN
  /\ rfidBuffer' = <<>>
  /\ IF op = Null \/ state.phase # "idle"
     THEN UNCHANGED <<state, runningInfo, ghostVars>>
     ELSE setState(Authenticated(op)) /\ NoLineage

\* function loginWithCode(code)
loginWithCode(code) ==
  LET op == demoLookupOperator(code) IN
  /\ rfidBuffer' = <<>>
  /\ IF op = Null
     THEN UNCHANGED <<state, runningInfo, ghostVars>>
     ELSE setState(Authenticated(op)) /\ NoLineage

\* ----------------------------------------------------------------- session
\* function resetToIdle()
resetToIdle ==
  /\ stopScanner(scan)
  /\ selectedWO' = Null
  /\ rfidBuffer' = <<>>
  /\ setState(Idle)
  /\ NoLineage

\* The hidden RFID input and the visible one: onChange={(e) => setRfidBuffer(e.target.value)}
onChange(v) ==
  /\ mounted
  /\ rfidBuffer' = v
  /\ alert' = Null
  /\ Step("none", "")
  /\ UNCHANGED <<state, selectedWO, runningInfo, scanVars, ghostVars>>

\* onRFIDEnter returning on an empty code before it clears the buffer.
onRFIDEnter_keepOnEmpty ==
  /\ mounted
  /\ LET op == demoLookupOperator(rfidBuffer) IN
     IF op = Null
     THEN UNCHANGED <<rfidBuffer, state, runningInfo, ghostVars>>
     ELSE rfidBuffer' = <<>> /\ setState(Authenticated(op)) /\ NoLineage
  /\ alert' = Null
  /\ Step("onRFIDEnter", rfidBuffer)
  /\ UNCHANGED <<selectedWO, scanVars>>

\* function onRFIDEnter(): Enter in the hidden input, or the Giris button.
onRFIDEnter ==
  /\ mounted
  /\ LET op == demoLookupOperator(rfidBuffer) IN
     /\ rfidBuffer' = <<>>
     /\ IF op = Null
        THEN UNCHANGED <<state, runningInfo, ghostVars>>
        ELSE setState(Authenticated(op)) /\ NoLineage
  /\ alert' = Null
  /\ Step("onRFIDEnter", rfidBuffer)
  /\ UNCHANGED <<selectedWO, scanVars>>

\* The work-order buttons: disabled={!canPickWO}, onClick={() => setSelectedWO(wo)}
selectWO(i) ==
  /\ mounted
  /\ i \in DOMAIN demoWorkOrders
  /\ state.phase = "authenticated"
  /\ selectedWO' = demoWorkOrders[i]
  /\ alert' = Null
  /\ Step("selectWO", demoWorkOrders[i].id)
  /\ UNCHANGED <<state, rfidBuffer, runningInfo, scanVars, ghostVars>>

\* startWork taking the first work order of the catalogue, whatever is selected.
startState_firstOrder(st, order, t) ==
  [phase |-> "running", operatorId |-> st.operatorId,
   operatorName |-> st.operatorName, wo |-> demoWorkOrders[1], startTs |-> t,
   produced |-> 0]

\* The state startWork sets.
startState(st, order, t) ==
  [phase |-> "running", operatorId |-> st.operatorId,
   operatorName |-> st.operatorName, wo |-> order, startTs |-> t, produced |-> 0]

\* function startWork()
startWork ==
  /\ mounted
  /\ IF selectedWO = Null \/ state.phase # "authenticated"
     THEN UNCHANGED <<state, runningInfo, ghostVars>>
     ELSE /\ setState(startState(state, selectedWO, now))
          /\ wallStart' = now
          /\ pausedMs' = 0
          /\ added' = 0
  /\ alert' = Null
  /\ Step("startWork", "")
  /\ UNCHANGED <<selectedWO, rfidBuffer, scanVars>>

\* pause recording every downtime as a break.
pauseState_breakOnly(st, reason, t) ==
  [phase |-> "paused", operatorId |-> st.operatorId,
   operatorName |-> st.operatorName, wo |-> st.wo, startTs |-> st.startTs,
   produced |-> st.produced, reason |-> "break", pauseTs |-> t]

\* The state pause sets.
pauseState(st, reason, t) ==
  [phase |-> "paused", operatorId |-> st.operatorId,
   operatorName |-> st.operatorName, wo |-> st.wo, startTs |-> st.startTs,
   produced |-> st.produced, reason |-> reason, pauseTs |-> t]

\* pause guarded by "a session is under way": a paused session is paused anew.
pause_rePause(reason) ==
  /\ mounted
  /\ IF ~InSession(state)
     THEN UNCHANGED <<state, runningInfo>>
     ELSE setState(pauseState(state, reason, now))
  /\ alert' = Null
  /\ Step("pause", reason)
  /\ UNCHANGED <<selectedWO, rfidBuffer, scanVars, ghostVars>>

\* function pause(reason)
pause(reason) ==
  /\ mounted
  /\ IF state.phase # "running"
     THEN UNCHANGED <<state, runningInfo>>
     ELSE setState(pauseState(state, reason, now))
  /\ alert' = Null
  /\ Step("pause", reason)
  /\ UNCHANGED <<selectedWO, rfidBuffer, scanVars, ghostVars>>

\* resume leaving startTs as it was: the pause counts as working time.
resumeState_noShift(st, t) ==
  [phase |-> "running", operatorId |-> st.operatorId,
   operatorName |-> st.operatorName, wo |-> st.wo,
   startTs |-> st.startTs, produced |-> st.produced]

\* resume with the paused duration taken the wrong way round.
resumeState_signSlip(st, t) ==
  LET pausedDuration == st.pauseTs - t IN
  [phase |-> "running", operatorId |-> st.operatorId,
   operatorName |-> st.operatorName, wo |-> st.wo,
   startTs |-> st.startTs + pausedDuration, produced |-> st.produced]

\* resume starting the count afresh.
resumeState_dropProduced(st, t) ==
  LET pausedDuration == t - st.pauseTs IN
  [phase |-> "running", operatorId |-> st.operatorId,
   operatorName |-> st.operatorName, wo |-> st.wo,
   startTs |-> st.startTs + pausedDuration, produced |-> 0]

\* resume moving startTs forward by twice the paused duration.
resumeState_doubleShift(st, t) ==
  LET pausedDuration == t - st.pauseTs IN
  [phase |-> "running", operatorId |-> st.operatorId,
   operatorName |-> st.operatorName, wo |-> st.wo,
   startTs |-> st.startTs + 2 * pausedDuration, produced |-> st.produced]

\* resume going back to the first work order of the catalogue.
resumeState_firstOrder(st, t) ==
  LET pausedDuration == t - st.pauseTs IN
  [phase |-> "running", operatorId |-> st.operatorId,
   operatorName |-> st.operatorName, wo |-> demoWorkOrders[1],
   startTs |-> st.startTs + pausedDuration, produced |-> st.produced]

\* The state resume sets.
resumeState(st, t) ==
  LET pausedDuration == t - st.pauseTs IN
  [phase |-> "running", operatorId |-> st.operatorId,
   operatorName |-> st.operatorName, wo |-> st.wo,
   startTs |-> st.startTs + pausedDuration, produced |-> st.produced]

\* function resume()
resume ==
  /\ mounted
  /\ IF state.phase # "paused"
     THEN UNCHANGED <<state, runningInfo>>
     ELSE setState(resumeState(state, now))
  /\ alert' = Null
  /\ Step("resume", "")
  /\ UNCHANGED <<selectedWO, rfidBuffer, scanVars, ghostVars>>

\* addPiece counting a piece twice.
addPieceState_double(st) == [st EXCEPT !.produced = @ + 2]

\* The state addPiece sets: { ...state, produced: state.produced + 1 }
addPieceState(st) == [st EXCEPT !.produced = @ + 1]

\* addPiece guarded by "a session is under way" instead of "running".
addPiece_whilePaused ==
  /\ mounted
  /\ IF InSession(state)
     THEN /\ state.produced < MaxProduced
          /\ setState(addPieceState(state))
          /\ added' = added + 1
     ELSE UNCHANGED <<state, runningInfo, added>>
  /\ alert' = Null
  /\ Step("addPiece", "")
  /\ UNCHANGED <<selectedWO, rfidBuffer, scanVars, wallStart, pausedMs>>

\* function addPiece(), enabled on a running session up to max pieces.
addPieceUpTo(max) ==
  /\ mounted
  /\ IF state.phase = "running"
     THEN /\ state.produced < max
          /\ setState(addPieceState(state))
          /\ added' = added + 1
     ELSE UNCHANGED <<state, runningInfo, added>>
  /\ alert' = Null
  /\ Step("addPiece", "")
  /\ UNCHANGED <<selectedWO, rfidBuffer, scanVars, wallStart, pausedMs>>

\* function addPiece()
addPiece == addPieceUpTo(MaxProduced)

\* The text finishWork hands to alert(): its five values.
finishSummary(st, info, t) ==
  LET opName == st.operatorName
      wo == st.wo
      produced == st.produced
      elapsedMs == (IF st.phase = "paused" THEN st.pauseTs ELSE t) - st.startTs
  IN  [operator |-> opName, wo |-> wo.wo, produced |-> produced,
       sure |-> formatHMS(elapsedMs), pph |-> round(info.pph)]

\* function finishWork()
finishWork ==
  /\ mounted
  /\ IF ~InSession(state)
     THEN /\ alert' = Null
          /\ UNCHANGED <<sessionVars, scanVars, ghostVars>>
     ELSE /\ alert' = finishSummary(state, runningInfo, now)
          /\ resetToIdle
  /\ Step("finishWork", "")

\* The Cikis button, rendered when state.phase !== 'idle': onClick={resetToIdle}
logout ==
  /\ mounted
  /\ state.phase # "idle"
  /\ resetToIdle
  /\ alert' = Null
  /\ Step("resetToIdle", "")

\* ------------------------------------------------- code capture, continued
\* An invocation slot is free when its invocation has ended and nothing
\* refers to it or to its stream any more.
Free(i) == scan[i] = "done" /\ i \notin tracks /\ streamRef # i /\ rafRef # i

\* The catch of line 142 swallowing the error instead of recording it.
setScanError_swallow(msg) == scanError' = scanError

\* setScanError(msg): a state update of an unmounted component is dropped.
setScanError(msg) == scanError' = (IF mounted THEN msg ELSE scanError)

\* async function openScanner(), up to its first await.  Its triggers (the
\* visible input's onFocus, Giris on a touch device, Scan Barcode) are
\* rendered while state.phase === 'idle'.
openScanner(i) ==
  /\ mounted
  /\ state.phase = "idle"
  /\ Free(i)
  /\ \A j \in Scans : j < i => ~Free(j)
  /\ scanOpen' = TRUE
  /\ IF device = "noMediaDevices"
     THEN scanError' = ErrNoCamera /\ UNCHANGED scan
     ELSE scanError' = NullStr /\ scan' = [scan EXCEPT ![i] = "getUserMedia"]
  /\ alert' = Null
  /\ Step("none", "")
  /\ UNCHANGED <<sessionVars, streamRef, rafRef, tracks, ghostVars>>

\* openScanner after getUserMedia resolved: lines 108-113.  videoRef.current
\* is the <video> of the modal, rendered while scanOpen.
getUserMediaResolved(i) ==
  /\ scan[i] = "getUserMedia"
  /\ streamRef' = i
  /\ tracks' = tracks \cup {i}
  /\ IF mounted /\ scanOpen
     THEN scan' = abortPlay([scan EXCEPT ![i] = "play"], i) /\ UNCHANGED scanError
     ELSE scan' = [scan EXCEPT ![i] = "done"] /\ setScanError(ErrNoVideo)
  /\ alert' = Null
  /\ Step("none", "")
  /\ UNCHANGED <<sessionVars, scanOpen, rafRef, ghostVars>>

\* getUserMedia rejected (permission denied, no camera): the catch of line 142.
getUserMediaRejected(i) ==
  /\ scan[i] = "getUserMedia"
  /\ scan' = [scan EXCEPT ![i] = "done"]
  /\ setScanError(ErrRejected)
  /\ alert' = Null
  /\ Step("none", "")
  /\ UNCHANGED <<sessionVars, scanOpen, streamRef, rafRef, tracks, ghostVars>>

\* openScanner after video.play() resolved: lines 115-141.
playResolved(i) ==
  /\ scan[i] = "play"
  /\ IF device = "noBarcodeDetector"
     THEN /\ scan' = [scan EXCEPT ![i] = "done"]
          /\ setScanError(ErrNoDetector)
          /\ UNCHANGED rafRef
     ELSE /\ scan' = [scan EXCEPT ![i] = "raf"]
          /\ rafRef' = i
          /\ UNCHANGED scanError
  /\ alert' = Null
  /\ Step("none", "")
  /\ UNCHANGED <<sessionVars, scanOpen, streamRef, tracks, ghostVars>>

\* video.play() rejected: the catch of line 142.
playRejected(i) ==
  /\ scan[i] \in {"play", "playAborted"}
  /\ scan' = [scan EXCEPT ![i] = "done"]
  /\ setScanError(ErrRejected)
  /\ alert' = Null
  /\ Step("none", "")
  /\ UNCHANGED <<sessionVars, scanOpen, streamRef, rafRef, tracks, ghostVars>>

\* The frame callback runs loop up to its await of detector.detect(video).
frame(i) ==
  /\ scan[i] = "raf"
  /\ scan' = [scan EXCEPT ![i] = "detect"]
  /\ alert' = Null
  /\ Step("none", "")
  /\ UNCHANGED <<sessionVars, scanOpen, scanError, streamRef, rafRef, tracks,
                 ghostVars>>

\* const raw = barcodes[0]?.rawValue?.trim(), or the empty string when there
\* is no barcode.
firstRaw(barcodes) == IF Len(barcodes) > 0 THEN trim(barcodes[1]) ELSE <<>>

\* loop after detector.detect(video) settled with r: lines 127-138.
detectSettled(i, r) ==
  /\ scan[i] = "detect"
  /\ IF ~r.threw /\ firstRaw(r.barcodes) # <<>>
     THEN /\ stopScanner([scan EXCEPT ![i] = "done"])
          /\ IF mounted
             THEN loginWithCode(firstRaw(r.barcodes))
             ELSE UNCHANGED <<state, rfidBuffer, runningInfo, ghostVars>>
          /\ Step("loginWithCode", firstRaw(r.barcodes))
     ELSE /\ scan' = [scan EXCEPT ![i] = "raf"]
          /\ rafRef' = i
          /\ Step("detect", r)
          /\ UNCHANGED <<state, rfidBuffer, runningInfo, scanOpen, scanError,
                         streamRef, tracks, ghostVars>>
  /\ alert' = Null
  /\ UNCHANGED selectedWO

\* The Kapat button of the scanner modal, rendered while scanOpen.
kapat ==
  /\ mounted
  /\ scanOpen
  /\ stopScanner(scan)
  /\ alert' = Null
  /\ Step("none", "")
  /\ UNCHANGED <<sessionVars, ghostVars>>

\* The unmount cleanup: useEffect(() => () => stopScanner(), []).
unmount ==
  /\ mounted
  /\ mounted' = FALSE
  /\ stopScanner(scan)
  /\ alert' = Null
  /\ lastOp' = Op("none", "")
  /\ pre' = Null
  /\ UNCHANGED <<sessionVars, ghostVars, device, now, backs>>

\* ------------------------------------------------------------ tick, clock
\* The interval of line 174: setTick((t) => t + 1).  The counter is read
\* nowhere; the render it causes recomputes runningInfo.
tick ==
  /\ mounted
  /\ runningInfo' = RunningInfo(state, now)
  /\ alert' = Null
  /\ Step("none", "")
  /\ UNCHANGED <<state, selectedWO, rfidBuffer, scanVars, ghostVars>>

\* Time passes by d (d < 0: the wall clock is set back), within 0..max.
clockWithin(d, max) ==
  /\ mounted
  /\ now + d \in 0..max
  /\ d < 0 => backs < MaxBack
  /\ now' = now + d
  /\ backs' = (IF d < 0 THEN backs + 1 ELSE backs)
  /\ pausedMs' = (IF state.phase = "paused" THEN pausedMs + d ELSE pausedMs)
  /\ alert' = Null
  /\ lastOp' = Op("none", "")
  /\ pre' = Null
  /\ UNCHANGED <<sessionVars, scanVars, device, mounted, wallStart, added>>

clock(d) == clockWithin(d, MaxNow)

Next ==
  \/ \E v \in InputValues : onChange(v)
  \/ onRFIDEnter
  \/ \E i \in 1..MaxPick : selectWO(i)
  \/ startWork
  \/ \E reason \in DowntimeReason : pause(reason)
  \/ resume
  \/ addPiece
  \/ finishWork
  \/ logout
  \/ \E i \in 1..MaxScans : openScanner(i)
  \/ \E i \in 1..MaxScans : getUserMediaResolved(i)
  \/ \E i \in 1..MaxScans : getUserMediaRejected(i)
  \/ \E i \in 1..MaxScans : playResolved(i)
  \/ \E i \in 1..MaxScans : playRejected(i)
  \/ \E i \in 1..MaxScans : frame(i)
  \/ \E i \in 1..MaxScans, r \in DetectResults : detectSettled(i, r)
  \/ kapat
  \/ unmount
  \/ tick
  \/ clock(ClockStep)
  \/ clock(-ClockStep)

Spec == Init /\ [][Next]_vars

\* The code capture with every invocation slot in use, and of the session the
\* handlers that run beside it; the clock stands still.
NextScan ==
  \/ \E v \in InputValues : onChange(v)
  \/ onRFIDEnter
  \/ \E i \in 1..MaxPick : selectWO(i)
  \/ startWork
  \/ \E reason \in DowntimeReason : pause(reason)
  \/ resume
  \/ addPiece
  \/ finishWork
  \/ logout
  \/ \E i \in Scans : openScanner(i)
  \/ \E i \in Scans : getUserMediaResolved(i)
  \/ \E i \in Scans : getUserMediaRejected(i)
  \/ \E i \in Scans : playResolved(i)
  \/ \E i \in Scans : playRejected(i)
  \/ \E i \in Scans : frame(i)
  \/ \E i \in Scans, r \in DetectResults : detectSettled(i, r)
  \/ kapat
  \/ unmount

SpecScan == Init /\ [][NextScan]_vars

\* The two ways a code comes in, with the codes of CodeInputs, from Idle,
\* Authenticated and Running; the clock stands still.
NextCodes ==
  \/ \E v \in CodeInputs : onChange(v)
  \/ onRFIDEnter
  \/ \E i \in 1..MaxPick : selectWO(i)
  \/ startWork
  \/ logout
  \/ \E i \in 1..MaxScans : openScanner(i)
  \/ \E i \in 1..MaxScans : getUserMediaResolved(i)
  \/ \E i \in 1..MaxScans : getUserMediaRejected(i)
  \/ \E i \in 1..MaxScans : playResolved(i)
  \/ \E i \in 1..MaxScans : playRejected(i)
  \/ \E i \in 1..MaxScans : frame(i)
  \/ \E i \in 1..MaxScans, r \in CodeFrames : detectSettled(i, r)
  \/ kapat
  \/ unmount

SpecCodes == Init /\ [][NextCodes]_vars

\* A shift at the kiosk: the operator of card 000000001 and the session
\* handlers, with minutes passing and up to ScenarioPieces pieces.
NextScenario ==
  \/ onChange(Code1)
  \/ onRFIDEnter
  \/ \E i \in 1..MaxPick : selectWO(i)
  \/ startWork
  \/ \E reason \in DowntimeReason : pause(reason)
  \/ resume
  \/ addPieceUpTo(ScenarioPieces)
  \/ finishWork
  \/ logout
  \/ tick
  \/ clockWithin(ScenarioStep, ScenarioMaxNow)

SpecScenario == Init /\ [][NextScenario]_vars

\* The scanner under fair scheduling.  The browser runs every frame callback
\* it was asked for unless the request is cancelled, every decode settles,
\* and a code is held up to the camera again and again: the detector finds
\* it in infinitely many of the frames that are decoded.
detectPresented(i) == \E r \in PresentedFrames : detectSettled(i, r)

NextLive ==
  \/ \E v \in InputValues : onChange(v)
  \/ onRFIDEnter
  \/ \E i \in 1..MaxPick : selectWO(i)
  \/ startWork
  \/ logout
  \/ \E i \in 1..MaxScans : openScanner(i)
  \/ \E i \in 1..MaxScans : getUserMediaResolved(i)
  \/ \E i \in 1..MaxScans : getUserMediaRejected(i)
  \/ \E i \in 1..MaxScans : playResolved(i)
  \/ \E i \in 1..MaxScans : playRejected(i)
  \/ \E i \in 1..MaxScans : frame(i)
  \/ \E i \in 1..MaxScans, r \in DetectResults : detectSettled(i, r)
  \/ kapat
  \/ unmount

SpecLive ==
  /\ Init /\ [][NextLive]_vars
  /\ \A i \in 1..MaxScans : WF_vars(frame(i))
  /\ \A i \in 1..MaxScans : SF_vars(detectPresented(i))

\* ================================================================== claims
Acted(name) == lastOp.name = name

Chars(text) == {text[i] : i \in 1..Len(text)}

\* C1: the only phase changes are Idle->Authenticated (a submitted code),
\* Authenticated->Running (start), Running->Paused (pause), Paused->Running
\* (resume), Running/Paused->Idle (finish or reset) and Authenticated->Idle
\* (reset).
C1_LegalPhaseChanges ==
  pre # Null =>
    LET p == pre.session.phase
        q == state.phase
        op == lastOp.name
    IN  \/ p = q
        \/ p = "idle" /\ q = "authenticated" /\ op \in {"onRFIDEnter", "loginWithCode"}
        \/ p = "authenticated" /\ q = "running" /\ op = "startWork"
        \/ p = "running" /\ q = "paused" /\ op = "pause"
        \/ p = "paused" /\ q = "running" /\ op = "resume"
        \/ p \in {"running", "paused"} /\ q = "idle" /\ op \in {"finishWork", "resetToIdle"}
        \/ p = "authenticated" /\ q = "idle" /\ op = "resetToIdle"

\* C2: a code submitted (Enter on the buffer, or a scanner emission) while
\* the phase is not Idle leaves the session as it was; from Idle a code that
\* is not empty gives Authenticated(operator).
C2_AuthenticateOnlyFromIdle ==
  (Acted("onRFIDEnter") \/ Acted("loginWithCode")) =>
    LET op == demoLookupOperator(lastOp.arg) IN
    IF pre.session.phase = "idle" /\ op # Null
    THEN state = Authenticated(op)
    ELSE state = pre.session

\* C3: the elapsed duration finish reports is the wall-clock span from the
\* start of the session to the finish minus the time the session was paused.
C3_ElapsedExcludesPauses ==
  Acted("finishWork") /\ InSession(pre.session) =>
    /\ alert # Null
    /\ alert.sure = formatHMS((now - pre.wallStart) - pre.pausedMs)

\* A finish 1000 ms after the start of a session that was paused for 500 ms
\* of them: 500 ms are reported, as 00:00:00.
C3_Witness ==
  /\ Acted("finishWork")
  /\ InSession(pre.session)
  /\ now - pre.wallStart = 1000
  /\ pre.pausedMs = 500
  /\ alert.sure = <<"0", "0", ":", "0", "0", ":", "0", "0">>

\* C4: resume from Paused gives Running with startTs moved forward by
\* now - pauseTs and operator, work order and produced count as they were,
\* so the elapsed time shown after the resume is the one frozen at the pause.
C4_ResumeShiftsStart ==
  Acted("resume") /\ pre.session.phase = "paused" =>
    LET old == pre.session IN
    /\ state = [phase |-> "running", operatorId |-> old.operatorId,
                operatorName |-> old.operatorName, wo |-> old.wo,
                startTs |-> old.startTs + (now - old.pauseTs),
                produced |-> old.produced]
    /\ runningInfo.elapsed = old.pauseTs - old.startTs
    /\ now - state.startTs = old.pauseTs - old.startTs

\* A resume after a pause that lasted, with pieces counted before it.
C4_Witness ==
  /\ Acted("resume")
  /\ pre.session.phase = "paused"
  /\ now > pre.session.pauseTs
  /\ pre.session.pauseTs > pre.session.startTs
  /\ state.phase = "running"
  /\ state.produced > 0

\* C5: pause(reason) from Running gives Paused with pauseTs = now and that
\* reason, and startTs, produced count, operator and work order as they were.
C5_PauseKeepsSession ==
  Acted("pause") /\ pre.session.phase = "running" =>
    LET old == pre.session IN
    state = [phase |-> "paused", operatorId |-> old.operatorId,
             operatorName |-> old.operatorName, wo |-> old.wo,
             startTs |-> old.startTs, produced |-> old.produced,
             reason |-> lastOp.arg, pauseTs |-> now]

\* A pause for a fault, after time has passed and a piece was counted.
C5_Witness ==
  /\ Acted("pause")
  /\ lastOp.arg = "fault"
  /\ pre.session.phase = "running"
  /\ state.phase = "paused"
  /\ state.pauseTs > state.startTs
  /\ state.produced > 0

\* C6: start from Authenticated with a work order selected gives Running
\* with startTs = now, produced = 0, the authenticated operator and the
\* selected work order; without a selection, or from another phase, the
\* session stays as it was.  No summary is shown either way.
C6_StartWork ==
  Acted("startWork") =>
    LET old == pre.session IN
    /\ alert = Null
    /\ IF old.phase = "authenticated" /\ selectedWO # Null
       THEN state = [phase |-> "running", operatorId |-> old.operatorId,
                     operatorName |-> old.operatorName, wo |-> selectedWO,
                     startTs |-> now, produced |-> 0]
       ELSE state = old

\* A start with the second work order selected, at a clock reading that is
\* not the initial one.
C6_Witness ==
  /\ Acted("startWork")
  /\ pre.session.phase = "authenticated"
  /\ state.phase = "running"
  /\ state.wo.wo = "WO-1002"
  /\ state.startTs > 0

\* C7: addPiece while Running adds exactly 1 to produced and changes nothing
\* else of the session, so produced is the number of addPiece calls made
\* while the session was running.
C7_AddPieceCounts ==
  /\ Acted("addPiece") /\ pre.session.phase = "running" =>
       state = [pre.session EXCEPT !.produced = @ + 1]
  /\ InSession(state) => state.produced = added

\* The second addPiece of a session.
C7_Witness ==
  /\ Acted("addPiece")
  /\ pre.session.phase = "running"
  /\ state.produced = 2
  /\ added = 2

\* C8: addPiece while Paused, Authenticated or Idle leaves the session as it
\* was.
C8_AddPieceOnlyRunning ==
  Acted("addPiece") /\ pre.session.phase # "running" =>
    /\ state = pre.session
    /\ InSession(state) => state.produced = added

\* An addPiece on a paused session that has pieces.
C8_Witness ==
  /\ Acted("addPiece")
  /\ pre.session.phase = "paused"
  /\ state.phase = "paused"
  /\ state.produced > 0

\* C9: produced is never negative, never decreases from one step to the next
\* while the session stays Running/Paused, and a step that enters
\* Running/Paused from outside is a start and sets it to 0.
C9_ProducedMonotone ==
  [][ /\ InSession(state') => state'.produced >= 0
      /\ InSession(state) /\ InSession(state') =>
           state'.produced >= state.produced
      /\ ~InSession(state) /\ InSession(state') =>
           state'.produced = 0 /\ lastOp'.name = "startWork" ]_vars

\* A session resumed with the two pieces it had when it was paused.
C9_Witness ==
  /\ Acted("resume")
  /\ pre.session.phase = "paused"
  /\ pre.session.produced = 2
  /\ state.phase = "running"
  /\ state.produced = 2

\* C10: finish from Running or Paused ends in Idle whatever produced is, and
\* its summary carries the operator name, the work-order code and the
\* produced count of the session it ended, with a duration that is not
\* negative.
C10_FinishSummary ==
  Acted("finishWork") /\ InSession(pre.session) =>
    LET old == pre.session IN
    /\ state = Idle
    /\ alert # Null
    /\ alert.operator = old.operatorName
    /\ alert.wo = old.wo.wo
    /\ alert.produced = old.produced
    /\ "-" \notin Chars(alert.sure)

\* A finish with nothing produced, after the clock was set back to before
\* the session's start.
C10_Witness ==
  /\ Acted("finishWork")
  /\ pre.session.phase = "running"
  /\ pre.session.produced = 0
  /\ now < pre.session.startTs
  /\ state = Idle
  /\ alert # Null

\* The text of a duration of zero.
ZeroHMS == <<"0", "0", ":", "0", "0", ":", "0", "0">>

\* C11: the rate in the finish summary is the produced count divided by the
\* elapsed time the summary reports (end time pauseTs if Paused, otherwise
\* the clock reading at the finish), in hours, rounded; 0 when that elapsed
\* time is not positive.
C11_FinishRateSameEnd ==
  Acted("finishWork") /\ InSession(pre.session) =>
    LET old == pre.session
        end == IF old.phase = "paused" THEN old.pauseTs ELSE now
        elapsed == end - old.startTs
    IN  alert.pph = IF elapsed > 0
                    THEN round([num |-> old.produced * 3600000, den |-> elapsed])
                    ELSE 0

\* C13: start outside Authenticated, pause outside Running, resume outside
\* Paused and finish outside Running/Paused show no summary and leave the
\* session as it was; a pause of a paused session keeps its pauseTs and reason.
C13_IllegalOpsAreNoOps ==
  /\ Acted("startWork") /\ pre.session.phase # "authenticated" =>
       state = pre.session /\ alert = Null
  /\ Acted("pause") /\ pre.session.phase # "running" =>
       state = pre.session /\ alert = Null
  /\ Acted("resume") /\ pre.session.phase # "paused" =>
       state = pre.session /\ alert = Null
  /\ Acted("finishWork") /\ ~InSession(pre.session) =>
       state = pre.session /\ alert = Null

\* A pause for another reason, at a later clock reading, of a session that
\* is paused already.
C13_Witness ==
  /\ Acted("pause")
  /\ pre.session.phase = "paused"
  /\ state.phase = "paused"
  /\ lastOp.arg # state.reason
  /\ now > state.pauseTs

\* C14: the rate of the last render is produced / hours of that render's
\* elapsed time when the elapsed time is positive, and exactly 0 otherwise
\* (elapsed zero or negative, or no session under way); it is a finite number
\* that is not negative, and so is the rate a finish summary shows.
C14_RateGuard ==
  /\ runningInfo.pph.den > 0
  /\ runningInfo.pph.num >= 0
  /\ runningInfo.pph =
       IF InSession(state) /\ runningInfo.elapsed > 0
       THEN [num |-> state.produced * 3600000, den |-> runningInfo.elapsed]
       ELSE Zero
  /\ PPHStat >= 0
  /\ alert # Null => alert.pph >= 0

\* A render of a session with a piece counted, after the clock was set back
\* to before the session's start: the rate is 0.
C14_Witness ==
  /\ InSession(state)
  /\ state.produced > 0
  /\ runningInfo.elapsed < 0
  /\ runningInfo.pph = Zero

\* C15, as stated: the elapsed value the rate calculation produces is
\* max(0, asOf - startTs), never negative, and neither is the one shown on
\* the display or in the finish summary.
C15_ElapsedClamped ==
  /\ runningInfo.elapsed >= 0
  /\ "-" \notin Chars(SureStat)
  /\ alert # Null => "-" \notin Chars(alert.sure)

\* C15, amended: the elapsed duration shown on the display and in the finish
\* summary is never negative, and for a span that is not positive the display
\* shows 00:00:00 with rate 0 and the summary 00:00:00 (the clamp is applied
\* when the value is formatted; the value the rate calculation keeps is the
\* span itself).
C15_ShownElapsedClamped ==
  /\ "-" \notin Chars(SureStat)
  /\ runningInfo.elapsed <= 0 => SureStat = ZeroHMS /\ PPHStat = 0
  /\ alert # Null => "-" \notin Chars(alert.sure)
  /\ Acted("finishWork") /\ InSession(pre.session) =>
       LET old == pre.session
           end == IF old.phase = "paused" THEN old.pauseTs ELSE now
       IN  end - old.startTs <= 0 => alert.sure = ZeroHMS

\* A render of a running session after the clock was set back to before the
\* session's start.
C15_Witness ==
  /\ state.phase = "running"
  /\ now < state.startTs
  /\ runningInfo.elapsed < 0
  /\ SureStat = ZeroHMS

\* C12: a reset (the Cikis button, or the reset finish ends with) leaves the
\* session Idle with no operator, no selected work order, no produced count
\* and an empty code buffer, and no visual capture: no frame sample pending,
\* no camera track live, the stream and frame handles cleared, modal closed.
C12_ResetClearsAll ==
  (Acted("resetToIdle") \/ (Acted("finishWork") /\ InSession(pre.session))) =>
    /\ state = Idle
    /\ selectedWO = Null
    /\ rfidBuffer = <<>>
    /\ ~scanOpen
    /\ rafRef = 0
    /\ streamRef = 0
    /\ tracks = {}
    /\ \A i \in Scans : scan[i] # "raf"

\* C16: when a capture has emitted a code (its loop called loginWithCode),
\* no camera track is live, the handles are cleared and no loop has a frame
\* sample pending or a frame being decoded, so that no second emission can
\* follow.
C16_OneEmission ==
  Acted("loginWithCode") =>
    /\ tracks = {}
    /\ rafRef = 0
    /\ streamRef = 0
    /\ \A i \in Scans : scan[i] \notin {"raf", "detect"}

\* C17: while the capture is not open (it was never opened, or was closed by
\* Kapat, a reset or an emission), after the unmount, and after opening has
\* failed with an error, no camera stream is open.
C17_CameraClosedAfterExit ==
  (~scanOpen \/ ~mounted \/ scanError # NullStr) => tracks = {}

\* C18: at most one camera stream is open at any time, and an open stream is
\* the one streamRef holds, so that stopScanner can stop it.
C18_OneStream ==
  /\ Cardinality(tracks) <= 1
  /\ tracks \subseteq {streamRef}

\* C19: once stopScanner has run and the capture has not been opened again,
\* no loop has a frame callback scheduled, also when a decode that was in
\* flight at the stop completes afterwards.
C19_NoSampleAfterCancel ==
  ~scanOpen => \A i \in Scans : scan[i] # "raf"

\* C20: a step in which opening the capture fails (no camera API, getUserMedia
\* or play rejected, no video element, no BarcodeDetector) records a message
\* in scanError, which the modal shows while it is open, and leaves the modal,
\* the session, the selected work order and the code buffer as they were;
\* and with such a message recorded, Enter on a buffer that is not empty
\* after trimming authenticates from Idle.
C20_DeviceUnavailable ==
  [][ /\ \A i \in Scans :
           mounted /\ scan[i] \in {"getUserMedia", "play", "playAborted"}
                   /\ scan'[i] = "done" =>
             /\ scanError' \in {ErrNoVideo, ErrNoDetector, ErrRejected}
             /\ scanOpen' = scanOpen
             /\ state' = state /\ selectedWO' = selectedWO /\ rfidBuffer' = rfidBuffer
      /\ device = "noMediaDevices" /\ ~scanOpen /\ scanOpen' =>
             /\ scanError' = ErrNoCamera
             /\ state' = state /\ selectedWO' = selectedWO /\ rfidBuffer' = rfidBuffer
      /\ ( /\ scanError # NullStr
           /\ state = Idle
           /\ lastOp'.name = "onRFIDEnter"
           /\ trim(rfidBuffer) # <<>> ) =>
             state' = Authenticated(demoLookupOperator(rfidBuffer))
    ]_vars

\* The operator authenticated by keyboard from Idle after getUserMedia was
\* rejected.
C20_Witness ==
  /\ Acted("onRFIDEnter")
  /\ pre.session = Idle
  /\ scanError = ErrRejected
  /\ state.phase = "authenticated"

\* C21: Enter on a buffer that is empty or holds only whitespace leaves the
\* session as it was, in every phase, and the buffer empty; a frame decode
\* that emits nothing leaves the session as it was, and no value that is
\* empty after trimming is ever emitted.
C21_EmptyCodeIgnored ==
  /\ Acted("onRFIDEnter") /\ trim(lastOp.arg) = <<>> =>
       state = pre.session /\ rfidBuffer = <<>>
  /\ Acted("detect") => state = pre.session
  /\ Acted("loginWithCode") => trim(lastOp.arg) # <<>>

\* Enter on a buffer of one blank while a session is running.
C21_Witness ==
  /\ Acted("onRFIDEnter")
  /\ lastOp.arg = <<" ">>
  /\ pre.session.phase = "running"
  /\ state = pre.session
  /\ rfidBuffer = <<>>

\* C25: while the session is Paused and no handler changes it, the elapsed
\* time and the rate of the render stay what they were, pauseTs - startTs,
\* whatever the clock does and however often the tick fires; and a step that
\* runs no session handler (a tick among them) changes neither the session
\* state nor the selected work order.
C25_PausedFrozen ==
  [][ /\ lastOp'.name = "none" => state' = state /\ selectedWO' = selectedWO
      /\ state.phase = "paused" /\ state' = state =>
           /\ runningInfo' = runningInfo
           /\ runningInfo'.elapsed = state.pauseTs - state.startTs
    ]_vars

\* A paused session with a piece counted, rendered after the clock has moved
\* on from the pause.
C25_Witness ==
  /\ state.phase = "paused"
  /\ now > state.pauseTs
  /\ pausedMs > 0
  /\ state.produced > 0
  /\ runningInfo.elapsed = state.pauseTs - state.startTs
  /\ runningInfo.elapsed > 0

\* The decoded values of a frame that are not empty after trimming.
NonEmptyValues(barcodes) ==
  {k \in 1..Len(barcodes) : trim(barcodes[k]) # <<>>}

\* C27: a frame that was decoded without error and emitted nothing had no
\* decoded value that is non-empty after trimming (the first such value would
\* have been emitted from that frame).
C27_FirstNonEmptyValue ==
  Acted("detect") /\ ~lastOp.arg.threw =>
    NonEmptyValues(lastOp.arg.barcodes) = {}

\* C29: outside Idle no visual capture is active: the modal is closed, no
\* camera track is live, no frame sample is pending and no frame is being
\* decoded; and a scanner emission finds the session Idle.
C29_CaptureOnlyInIdle ==
  /\ state.phase # "idle" =>
       /\ ~scanOpen
       /\ tracks = {}
       /\ \A i \in Scans : scan[i] \notin {"raf", "detect"}
  /\ Acted("loginWithCode") => pre.session = Idle

\* C30: in the mounted component a loop passes a code to loginWithCode only
\* while the capture is open, never after stopScanner has closed it.
C30_CancelledNeverAuthenticates ==
  [][ lastOp'.name = "loginWithCode" /\ mounted => scanOpen ]_vars

\* C22: a step that changes the buffer without running a handler (a typed
\* character) changes nothing of the session; Enter submits the buffer as it
\* stands, trimmed (an unknown code is embedded in the operator name as
\* trimmed), and leaves the buffer empty for the next code.
C22_KeyboardBuffer ==
  [][ /\ lastOp'.name = "none" /\ rfidBuffer' # rfidBuffer =>
           state' = state /\ selectedWO' = selectedWO /\ runningInfo' = runningInfo
      /\ lastOp'.name = "onRFIDEnter" =>
           /\ lastOp'.arg = rfidBuffer
           /\ rfidBuffer' = <<>>
           /\ LET c == trim(rfidBuffer) IN
              IF c = <<>>
              THEN state' = state
              ELSE /\ state'.phase = "authenticated"
                   /\ state'.operatorId = "op-x" =>
                        state'.operatorName = <<"Operator (">> \o c \o <<")">>
    ]_vars

\* Enter on the buffer " x7": the operator is named after "x7" and the
\* buffer is empty.
C22_Witness ==
  /\ Acted("onRFIDEnter")
  /\ lastOp.arg = <<" ", "x", "7">>
  /\ state.phase = "authenticated"
  /\ state.operatorName = <<"Operator (", "x", "7", ")">>
  /\ rfidBuffer = <<>>

\* C24: a code emitted by the visual capture and a code submitted by Enter
\* give the same result from the same session state: the buffer empty, and
\* the session as it was for a code without operator, Authenticated with the
\* operator of the code otherwise.
C24_ModalityAgnostic ==
  (Acted("onRFIDEnter") \/ (Acted("loginWithCode") /\ mounted)) =>
    LET op == demoLookupOperator(lastOp.arg) IN
    /\ rfidBuffer = <<>>
    /\ state = IF op = Null THEN pre.session ELSE Authenticated(op)

\* An emission of "x7" by the capture while a session is running, with the
\* result Enter on that code has.
C24_Witness ==
  /\ Acted("loginWithCode")
  /\ mounted
  /\ lastOp.arg = <<"x", "7">>
  /\ pre.session.phase = "running"
  /\ state.phase = "authenticated"
  /\ state.operatorId = "op-x"
  /\ rfidBuffer = <<>>

\* C28: from Idle a submitted code that is not empty after trimming gives
\* Authenticated: with op-1/Ahmet for "000000001" or "ahmet" in any letter
\* case, op-2/Lider for "000000002" or "lider" in any letter case, and op-x
\* named after the trimmed code for any other; only an empty code leaves the
\* session Idle.
C28_LookupTotal ==
  (Acted("onRFIDEnter") \/ (Acted("loginWithCode") /\ mounted))
    /\ pre.session = Idle =>
    LET c == trim(lastOp.arg)
        isAhmet == c = Code1 \/ toLowerCase(c) = StrAhmet
        isLider == c = Code2 \/ toLowerCase(c) = StrLider
    IN  /\ (c = <<>>) <=> (state = Idle)
        /\ c # <<>> => state.phase = "authenticated"
        /\ isAhmet => state.operatorId = "op-1" /\ state.operatorName = <<"Ahmet">>
        /\ isLider => state.operatorId = "op-2" /\ state.operatorName = <<"Lider">>
        /\ c # <<>> /\ ~isAhmet /\ ~isLider =>
             /\ state.operatorId = "op-x"
             /\ state.operatorName = <<"Operator (">> \o c \o <<")">>

\* Enter on "LIDER" from Idle gives the operator op-2.
C28_Witness ==
  /\ Acted("onRFIDEnter")
  /\ lastOp.arg = <<"L", "I", "D", "E", "R">>
  /\ pre.session = Idle
  /\ state.operatorId = "op-2"
  /\ state.operatorName = <<"Lider">>

\* C23: the code 000000001 plus Enter from Idle gives Authenticated(op-1,
\* Ahmet); start with a work order selected gives Running on that work order
\* with produced 0; produced is the number of addPiece calls; a resume gives
\* Running with produced unchanged and startTs moved forward by the time
\* paused, so that a running session's startTs is its start plus all the time
\* it was paused; finish gives Idle and a summary with the operator, work
\* order and produced count of the session.
C23_Scenario ==
  /\ Acted("onRFIDEnter") /\ pre.session = Idle /\ lastOp.arg = Code1 =>
       state = [phase |-> "authenticated", operatorId |-> "op-1",
                operatorName |-> <<"Ahmet">>]
  /\ Acted("startWork") /\ pre.session.phase = "authenticated"
       /\ selectedWO # Null =>
       /\ state.phase = "running"
       /\ state.operatorId = pre.session.operatorId
       /\ state.wo = selectedWO
       /\ state.produced = 0
  /\ InSession(state) => state.produced = added
  /\ Acted("resume") /\ pre.session.phase = "paused" =>
       /\ state.phase = "running"
       /\ state.produced = pre.session.produced
       /\ state.startTs = pre.session.startTs + (now - pre.session.pauseTs)
  /\ state.phase = "running" => state.startTs = wallStart + pausedMs
  /\ Acted("finishWork") /\ InSession(pre.session) =>
       /\ state = Idle
       /\ alert.operator = pre.session.operatorName
       /\ alert.wo = pre.session.wo.wo
       /\ alert.produced = pre.session.produced

\* The finish of the scenario: Ahmet on WO-1001 with five pieces, resumed
\* after a pause of two minutes that moved startTs by 120000 ms.
C23_Witness ==
  /\ Acted("finishWork")
  /\ pre.session.phase = "running"
  /\ pre.session.operatorId = "op-1"
  /\ pre.session.wo.wo = "WO-1001"
  /\ pre.session.produced = 5
  /\ pre.pausedMs = 120000
  /\ pre.session.startTs = pre.wallStart + 120000
  /\ state = Idle
  /\ alert.operator = <<"Ahmet">>
  /\ alert.wo = "WO-1001"
  /\ alert.produced = 5

\* A decode that settles without an emission asks for the next frame and
\* reports no error.
SamplingContinues ==
  \A i \in 1..MaxScans :
    scan[i] = "detect" /\ scan'[i] # "detect" /\ lastOp'.name # "loginWithCode"
      => scan'[i] = "raf" /\ scanError' = scanError

\* C26: a decode that fails or yields no code is not an error and schedules
\* another sample; and a capture that is sampling, while a code is presented
\* again and again, eventually emits it (a loginWithCode) unless it is
\* cancelled (the modal closed or the component unmounted).
C26_SamplingEmits ==
  /\ [][SamplingContinues]_vars
  /\ \A i \in 1..MaxScans :
       (scan[i] \in {"raf", "detect"} /\ scanOpen /\ mounted)
         ~> (Acted("loginWithCode") \/ ~scanOpen \/ ~mounted)

\* C31: whenever the phase is Idle no work order is selected; a session that
\* has just become Authenticated from Idle has no work order selected; and a
\* session that has just become Authenticated for another operator has none
\* either, so that no selection is carried from one operator's session into
\* the next.
C31_NoCarriedWorkOrder ==
  /\ state.phase = "idle" => selectedWO = Null
  /\ (Acted("onRFIDEnter") \/ Acted("loginWithCode"))
       /\ pre # Null /\ state.phase = "authenticated"
       /\ (pre.session.phase = "idle"
             \/ pre.session.operatorId # state.operatorId)
       => selectedWO = Null

\* C32: the session that start sets carries the operator who was
\* authenticated and the work order that was selected; every step from a
\* Running or Paused session to a Running or Paused session (addPiece, pause,
\* resume) keeps operator and work order; and the finish summary names the
\* operator and the work order of the session that is finished.
C32_SessionIdentityFixed ==
  [][ /\ state.phase = "authenticated" /\ InSession(state') =>
           /\ state'.operatorId = state.operatorId
           /\ state'.operatorName = state.operatorName
           /\ state'.wo = selectedWO
      /\ InSession(state) /\ InSession(state') =>
           /\ state'.operatorId = state.operatorId
           /\ state'.operatorName = state.operatorName
           /\ state'.wo = state.wo
      /\ InSession(state) /\ lastOp'.name = "finishWork" /\ mounted =>
           /\ alert'.operator = state.operatorName
           /\ alert'.wo = state.wo.wo ]_vars

\* A session on the second work order, finished after pieces were counted
\* and a pause was resumed.
C32_Witness ==
  /\ Acted("finishWork")
  /\ pre.session.phase = "running"
  /\ pre.session.wo = demoWorkOrders[2]
  /\ pre.session.produced > 0
  /\ pre.pausedMs > 0
  /\ alert.operator = pre.session.operatorName
  /\ alert.wo = pre.session.wo.wo

\* C33: as long as the clock has not gone backwards, a Paused session has
\* startTs <= pauseTs <= now and a Running session has startTs <= now, after
\* any number of pause/resume cycles, so the span asOf - startTs that
\* runningInfo keeps is not negative.
C33_StartNotAfterAsOf ==
  backs = 0 =>
    /\ state.phase = "paused" =>
         state.startTs <= state.pauseTs /\ state.pauseTs <= now
    /\ state.phase = "running" => state.startTs <= now
    /\ runningInfo.elapsed >= 0

\* A session resumed under a clock that only went forwards, whose pauses
\* have moved startTs by 1000 ms.
C33_Witness ==
  /\ Acted("resume")
  /\ backs = 0
  /\ state.phase = "running"
  /\ pausedMs = 1000
  /\ state.startTs = wallStart + 1000
  /\ state.startTs <= now

====
